---- MODULE Spec2Model ----
(***************************************************************************)
(* Alert lifecycle and deduplication engine of the metlo backend           *)
(* (backend/src/services/alert/index.ts, class AlertService).              *)
(*                                                                         *)
(* Strings that the code only compares or concatenates are TLA+ strings.   *)
(* Strings that the code inspects character by character (trim,            *)
(* toLowerCase, includes, replace, join) are sequences of one-character    *)
(* strings.  An optional value (null / undefined in the code) is the empty *)
(* tuple None, a present value x is the one-element tuple Some(x).         *)
(***************************************************************************)
EXTENDS Integers, Sequences, FiniteSets, TLC

VARIABLES
    alerts,      \* the persisted Alert table, in insertion order (uuid = index)
    specContext, \* the persisted OpenApiSpec.minimizedSpecContext of the spec
    input,       \* the arguments of the call under study (pure-function specs),
                 \* or the calls in flight (concurrent callers)
    last         \* what the last call did: its arguments and its outcome

vars == <<alerts, specContext, input, last>>

None == <<>>
Some(x) == <<x>>

-----------------------------------------------------------------------------
(* Bounds of the exploration                                               *)

MaxAlerts == 2
MaxBatch == 2

-----------------------------------------------------------------------------
(* Enumerations (@common/enums)                                            *)

OPEN == "OPEN"
IGNORED == "IGNORED"
RESOLVED == "RESOLVED"
Status == {OPEN, IGNORED, RESOLVED}

IGNORE == "IGNORE"
UNIGNORE == "UNIGNORE"
RESOLVE == "RESOLVE"
UNRESOLVE == "UNRESOLVE"
UpdateAlertType == {IGNORE, UNIGNORE, RESOLVE, UNRESOLVE}

NEW_ENDPOINT == "NEW_ENDPOINT"
OPEN_API_SPEC_DIFF == "OPEN_API_SPEC_DIFF"
PII_DATA_DETECTED == "PII_DATA_DETECTED"
QUERY_SENSITIVE_DATA == "QUERY_SENSITIVE_DATA"
PATH_SENSITIVE_DATA == "PATH_SENSITIVE_DATA"
BASIC_AUTHENTICATION_DETECTED == "BASIC_AUTHENTICATION_DETECTED"
UNSECURED_ENDPOINT_DETECTED == "UNSECURED_ENDPOINT_DETECTED"
AlertType == {NEW_ENDPOINT, OPEN_API_SPEC_DIFF, PII_DATA_DETECTED,
              QUERY_SENSITIVE_DATA, PATH_SENSITIVE_DATA,
              BASIC_AUTHENTICATION_DETECTED, UNSECURED_ENDPOINT_DETECTED}

REQUEST_PATH == "REQUEST_PATH"
REQUEST_QUERY == "REQUEST_QUERY"
REQUEST_HEADER == "REQUEST_HEADER"
REQUEST_BODY == "REQUEST_BODY"
RESPONSE_HEADER == "RESPONSE_HEADER"
RESPONSE_BODY == "RESPONSE_BODY"
DataSection == {REQUEST_PATH, REQUEST_QUERY, REQUEST_HEADER, REQUEST_BODY,
                RESPONSE_HEADER, RESPONSE_BODY}

JSON == "json"
YAML == "yaml"

\* ALERT_TYPE_TO_RISK_SCORE (@common/maps): type -> severity, 1 low .. 3 high
ALERT_TYPE_TO_RISK_SCORE(type) ==
    CASE type = NEW_ENDPOINT -> 1
      [] type = OPEN_API_SPEC_DIFF -> 2
      [] type = BASIC_AUTHENTICATION_DETECTED -> 2
      [] OTHER -> 3

\* DATA_SECTION_TO_LABEL_MAP (@common/maps)
DATA_SECTION_TO_LABEL_MAP(section) ==
    CASE section = REQUEST_PATH -> "Request Path"
      [] section = REQUEST_QUERY -> "Request Query"
      [] section = REQUEST_HEADER -> "Request Headers"
      [] section = REQUEST_BODY -> "Request Body"
      [] section = RESPONSE_HEADER -> "Response Headers"
      [] OTHER -> "Response Body"

-----------------------------------------------------------------------------
(* Character-level string helpers (String.prototype.trim / toLowerCase /   *)
(* includes as the code uses them)                                         *)

IsSpace(c) == c \in {" ", "\t", "\n"}

RECURSIVE TrimStart(_)
TrimStart(s) ==
    IF s # <<>> /\ IsSpace(Head(s)) THEN TrimStart(Tail(s)) ELSE s

RECURSIVE TrimEnd(_)
TrimEnd(s) ==
    IF s # <<>> /\ IsSpace(s[Len(s)])
    THEN TrimEnd(SubSeq(s, 1, Len(s) - 1))
    ELSE s

Trim(s) == TrimEnd(TrimStart(s))

LowerChar(c) ==
    CASE c = "A" -> "a" [] c = "B" -> "b" [] c = "C" -> "c" [] c = "E" -> "e"
      [] c = "H" -> "h" [] c = "I" -> "i" [] c = "N" -> "n" [] c = "O" -> "o"
      [] c = "R" -> "r" [] c = "S" -> "s" [] c = "T" -> "t" [] c = "U" -> "u"
      [] c = "X" -> "x" [] c = "Y" -> "y" [] c = "Z" -> "z"
      [] OTHER -> c

ToLowerCase(s) == [i \in 1..Len(s) |-> LowerChar(s[i])]

Includes(s, sub) ==
    \E i \in 1..(Len(s) - Len(sub) + 1) : SubSeq(s, i, i + Len(sub) - 1) = sub

-----------------------------------------------------------------------------
(* Persistence (AlertRepository, Alert entity defaults)                    *)

\* A draft is a `new Alert()` with the five fields the factories assign.
Draft(type, apiEndpointUuid, description, context) ==
    [type |-> type,
     riskScore |-> ALERT_TYPE_TO_RISK_SCORE(type),
     apiEndpointUuid |-> apiEndpointUuid,
     description |-> description,
     context |-> context]

\* Saving a draft: the entity gets its uuid and the column defaults
\* (status OPEN, resolutionMessage null).
Persisted(draft, uuid) ==
    [uuid |-> uuid,
     type |-> draft.type,
     riskScore |-> draft.riskScore,
     apiEndpointUuid |-> draft.apiEndpointUuid,
     description |-> draft.description,
     context |-> draft.context,
     status |-> OPEN,
     resolutionMessage |-> None]

RECURSIVE Save(_, _)
Save(store, drafts) ==
    IF drafts = <<>>
    THEN store
    ELSE Save(Append(store, Persisted(Head(drafts), Len(store) + 1)),
              Tail(drafts))

-----------------------------------------------------------------------------
(* AlertService.updateAlert                                                *)

Ok(alert) == [err |-> "none", msg |-> "", alert |-> alert]
Error409Conflict(msg, alert) ==
    [err |-> "Error409Conflict", msg |-> msg, alert |-> alert]
Error500InternalServer(msg, alert) ==
    [err |-> "Error500InternalServer", msg |-> msg, alert |-> alert]

\* Variant: the message is stored untrimmed.
MutTrimmedOrNull(resolutionMessage) ==
    IF resolutionMessage = None \/ resolutionMessage = Some(<<>>)
    THEN None
    ELSE resolutionMessage

\* updateAlertParams.resolutionMessage?.trim() || null
TrimmedOrNull(resolutionMessage) ==
    IF resolutionMessage = None
    THEN None
    ELSE IF Trim(resolutionMessage[1]) = <<>>
         THEN None
         ELSE Some(Trim(resolutionMessage[1]))

\* case UpdateAlertType.IGNORE
\* Variant: IGNORE is not refused on a RESOLVED alert.
MutIgnoreCase(alert) ==
    IF alert.status = IGNORED
    THEN Error409Conflict("Alert is already being ignored.", alert)
    ELSE Ok([alert EXCEPT !.status = IGNORED])

IgnoreCase(alert) ==
    IF alert.status = IGNORED
    THEN Error409Conflict("Alert is already being ignored.", alert)
    ELSE IF alert.status = RESOLVED
    THEN Error409Conflict("Alert is resolved and cannot be ignored.", alert)
    ELSE Ok([alert EXCEPT !.status = IGNORED])

\* case UpdateAlertType.UNIGNORE
\* Variant: UNIGNORE leaves the status as it is.
MutUnignoreCase(alert) ==
    IF alert.status # IGNORED
    THEN Error409Conflict("Alert is currently not ignored.", alert)
    ELSE Ok(alert)

UnignoreCase(alert) ==
    IF alert.status # IGNORED
    THEN Error409Conflict("Alert is currently not ignored.", alert)
    ELSE Ok([alert EXCEPT !.status = OPEN])

\* case UpdateAlertType.RESOLVE
ResolveCase(alert, resolutionMessage) ==
    IF alert.status = RESOLVED
    THEN Error409Conflict("Alert is already resolved.", alert)
    ELSE IF alert.status = IGNORED
    THEN Error409Conflict("Alert is ignored and cannot be resolved.", alert)
    ELSE Ok([alert EXCEPT !.status = RESOLVED, !.resolutionMessage = TrimmedOrNull(resolutionMessage)])

\* case UpdateAlertType.UNRESOLVE
UnresolveCase(alert) ==
    IF alert.status # RESOLVED
    THEN Error409Conflict("Alert is currently not resolved.", alert)
    ELSE Ok([alert EXCEPT !.status = OPEN])

\* Variant: the switch has no default branch.
MutUpdateSwitch(alert, updateType, resolutionMessage) ==
    CASE updateType = IGNORE -> IgnoreCase(alert)
      [] updateType = UNIGNORE -> UnignoreCase(alert)
      [] updateType = RESOLVE -> ResolveCase(alert, resolutionMessage)
      [] updateType = UNRESOLVE -> UnresolveCase(alert)
      [] OTHER -> Ok(alert)

\* The switch of updateAlert on the loaded alert: the outcome (what is
\* thrown, if anything) and the entity as it stands when the switch is left.
UpdateSwitch(alert, updateType, resolutionMessage) ==
    CASE updateType = IGNORE -> IgnoreCase(alert)
      [] updateType = UNIGNORE -> UnignoreCase(alert)
      [] updateType = RESOLVE -> ResolveCase(alert, resolutionMessage)
      [] updateType = UNRESOLVE -> UnresolveCase(alert)
      [] OTHER -> Error500InternalServer("Unknown update type.", alert)

\* alertRepository.update({ uuid: alertId }, alert): reached only when the
\* switch did not throw; the whole entity is written.
StoreAfterUpdate(store, alertId, outcome) ==
    IF outcome.err = "none"
    THEN [store EXCEPT ![alertId] = outcome.alert]
    ELSE store

-----------------------------------------------------------------------------
(* Deduplication                                                           *)

\* Variant: only OPEN alerts count as duplicates.
MutExistingOpenAlert(store, apiEndpointUuid, type, description) ==
    \E i \in DOMAIN store :
        /\ store[i].apiEndpointUuid = apiEndpointUuid
        /\ store[i].type = type
        /\ store[i].status = OPEN
        /\ store[i].description = description

\* Variant: alerts of every status count as duplicates.
MutExistingAnyAlert(store, apiEndpointUuid, type, description) ==
    \E i \in DOMAIN store :
        /\ store[i].apiEndpointUuid = apiEndpointUuid
        /\ store[i].type = type
        /\ store[i].description = description

\* AlertService.existingUnresolvedAlert: is there a persisted alert of this
\* endpoint, type and description whose status is not RESOLVED (the callers
\* only test the result for truthiness).
ExistingUnresolvedAlert(store, apiEndpointUuid, type, description) ==
    \E i \in DOMAIN store :
        /\ store[i].apiEndpointUuid = apiEndpointUuid
        /\ store[i].type = type
        /\ store[i].status # RESOLVED
        /\ store[i].description = description

\* Variant: only the draft appended last is compared.
MutExistingDataFieldAlert(dataFieldAlerts, apiEndpointUuid, description) ==
    /\ dataFieldAlerts # <<>>
    /\ dataFieldAlerts[Len(dataFieldAlerts)].apiEndpointUuid = apiEndpointUuid
    /\ dataFieldAlerts[Len(dataFieldAlerts)].description = description

\* AlertService.existingDataFieldAlert; dataFieldAlerts is never null where
\* it is called (alerts = sensitiveDataAlerts ?? []).
ExistingDataFieldAlert(dataFieldAlerts, apiEndpointUuid, description) ==
    \E i \in DOMAIN dataFieldAlerts :
        /\ dataFieldAlerts[i].apiEndpointUuid = apiEndpointUuid
        /\ dataFieldAlerts[i].description = description

\* The deduplication key of a finding or of an alert.
Key(apiEndpointUuid, type, description) ==
    [apiEndpointUuid |-> apiEndpointUuid, type |-> type,
     description |-> description]
KeyOf(a) == Key(a.apiEndpointUuid, a.type, a.description)

-----------------------------------------------------------------------------
(* AlertService.createAlert                                                *)

\* apiEndpoint.path is a sequence of lexemes: "/" separators and slash-free
\* runs of characters; the path as one string is their concatenation.
RECURSIVE PathString(_)
PathString(path) ==
    IF path = <<>> THEN "" ELSE Head(path) \o PathString(Tail(path))

DefaultDescription(alertType, apiEndpoint) ==
    CASE alertType = NEW_ENDPOINT ->
           "A new endpoint has been detected: "
               \o PathString(apiEndpoint.path) \o "."
      [] alertType = OPEN_API_SPEC_DIFF ->
           "A OpenAPI Spec diff has been detected."
      [] alertType = PII_DATA_DETECTED -> "PII Data has been detected."
      [] OTHER -> "A new alert."

\* if (!alertDescription): undefined and "" are both falsy
AlertDescription(alertType, apiEndpoint, description) ==
    IF description = None \/ description = Some("")
    THEN DefaultDescription(alertType, apiEndpoint)
    ELSE description[1]

\* Variant: the test of the lookup's result is inverted.
MutCreateAlert(store, alertType, apiEndpoint, description, context, noDuplicate) ==
    LET alertDescription ==
            AlertDescription(alertType, apiEndpoint, description)
    IN  IF noDuplicate
           /\ ~ExistingUnresolvedAlert(store, apiEndpoint.uuid, alertType,
                                       alertDescription)
        THEN None
        ELSE Some(Draft(alertType, apiEndpoint.uuid, alertDescription,
                        context))

\* The draft createAlert returns, or None for its `return null`.
CreateAlert(store, alertType, apiEndpoint, description, context, noDuplicate) ==
    LET alertDescription ==
            AlertDescription(alertType, apiEndpoint, description)
    IN  IF noDuplicate
           /\ ExistingUnresolvedAlert(store, apiEndpoint.uuid, alertType,
                                      alertDescription)
        THEN None
        ELSE Some(Draft(alertType, apiEndpoint.uuid, alertDescription,
                        context))

-----------------------------------------------------------------------------
(* AlertService.createMissingHSTSAlert                                     *)

\* A batch under construction: the drafts appended so far and, for the
\* record, the keys of the findings examined so far, in processing order.
\* fault is the number of repository operations (awaited lookups and writes)
\* the call can still make before one rejects, 0 when none will; threw tells
\* that the try block has been left by an exception.
EmptyBatch == [alerts |-> <<>>, findings |-> <<>>, fault |-> 0, threw |-> FALSE]

\* An awaited repository operation: it rejects, or it is one operation done.
Throws(acc) == acc.fault = 1
Thrown(acc) == [acc EXCEPT !.threw = TRUE, !.fault = 0]
Awaited(acc) == [acc EXCEPT !.fault = IF acc.fault > 0 THEN acc.fault - 1 ELSE 0]

\* Variant: the catch block returns what the loop had collected.
MutTryCatch(acc) ==
    [alerts |-> acc.alerts, findings |-> acc.findings, threw |-> acc.threw, err |-> "none", pushed |-> acc.alerts]

\* try { ... return alerts } catch (err) { console.error(...); return [] }:
\* what the call returns, nothing being thrown to the caller, and for the
\* record the local array `alerts` as the call left it.
TryCatch(acc) ==
    [alerts |-> IF acc.threw THEN <<>> ELSE acc.alerts, findings |-> acc.findings, threw |-> acc.threw, err |-> "none", pushed |-> acc.alerts]

\* One iteration of the loop over alertProps: <<endpoint, trace, description>>
HSTSStep(store, acc, alertProp) ==
    LET existing ==
            ExistingUnresolvedAlert(store, alertProp[1].uuid,
                                    UNSECURED_ENDPOINT_DETECTED, alertProp[3])
        newAlert ==
            Draft(UNSECURED_ENDPOINT_DETECTED, alertProp[1].uuid,
                  alertProp[3],
                  [tested_against |->
                       alertProp[2].host \o "/" \o alertProp[2].path,
                   trace |-> alertProp[2]])
    IN  IF acc.threw
        THEN acc
        ELSE IF Throws(acc)
        THEN Thrown(acc)
        ELSE [Awaited(acc) EXCEPT
                 !.alerts = IF existing THEN acc.alerts
                            ELSE Append(acc.alerts, newAlert),
                 !.findings = Append(acc.findings,
                                     Key(alertProp[1].uuid,
                                         UNSECURED_ENDPOINT_DETECTED,
                                         alertProp[3]))]

RECURSIVE HSTSLoop(_, _, _)
HSTSLoop(store, acc, alertProps) ==
    IF alertProps = <<>>
    THEN acc
    ELSE HSTSLoop(store, HSTSStep(store, acc, Head(alertProps)),
                  Tail(alertProps))

CreateMissingHSTSAlert(store, alertProps, fault) ==
    IF alertProps = None
    THEN TryCatch(EmptyBatch)
    ELSE TryCatch(HSTSLoop(store, [EmptyBatch EXCEPT !.fault = fault], alertProps[1]))

-----------------------------------------------------------------------------
(* AlertService.createDataFieldAlerts                                      *)

\* getPathTokens (@common/utils): the non-empty "/"-separated segments
RECURSIVE SplitPath(_, _, _)
SplitPath(path, cur, acc) ==
    LET flushed == IF cur = "" THEN acc ELSE Append(acc, cur)
    IN  IF path = <<>>
        THEN flushed
        ELSE IF Head(path) = "/"
             THEN SplitPath(Tail(path), "", flushed)
             ELSE SplitPath(Tail(path), cur \o Head(path), acc)

getPathTokens(path) == SplitPath(path, "", <<>>)

\* The dedup check and the push the two places of createDataFieldAlerts
\* share: in-batch duplicate || persisted unresolved duplicate.  The lookup
\* in the store is awaited only when the in-batch check is false.
PushUnlessExisting(store, acc, apiEndpointUuid, type, description, context) ==
    LET inBatch ==
            ExistingDataFieldAlert(acc.alerts, apiEndpointUuid, description)
        existing ==
            \/ inBatch
            \/ ExistingUnresolvedAlert(store, apiEndpointUuid, type,
                                       description)
        looked == IF inBatch THEN acc ELSE Awaited(acc)
    IN  IF acc.threw
        THEN acc
        ELSE IF ~inBatch /\ Throws(acc)
        THEN Thrown(acc)
        ELSE [looked EXCEPT
                 !.alerts = IF existing THEN acc.alerts
                            ELSE Append(acc.alerts,
                                        Draft(type, apiEndpointUuid,
                                              description, context)),
                 !.findings = Append(acc.findings,
                                     Key(apiEndpointUuid, type, description))]

authorization ==
    <<"a", "u", "t", "h", "o", "r", "i", "z", "a", "t", "i", "o", "n">>
basicSpace == <<"b", "a", "s", "i", "c", " ">>
basicAuthDescription ==
    "Basic Authentication detected in Authorization header."

\* Variant: the comparison is case-sensitive.
MutIsBasicAuthHeader(header) ==
    /\ header.name = authorization
    /\ Includes(header.value, basicSpace)

IsBasicAuthHeader(header) ==
    /\ ToLowerCase(header.name) = authorization
    /\ Includes(ToLowerCase(header.value), basicSpace)

\* for (let i = 0; i < requestHeaders.length && !found; i++); i is 1-based here
RECURSIVE HeaderScan(_, _, _, _, _, _, _)
HeaderScan(store, acc, requestHeaders, i, found, apiEndpointUuid, apiTrace) ==
    IF i > Len(requestHeaders) \/ found
    THEN acc
    ELSE IF IsBasicAuthHeader(requestHeaders[i])
         THEN HeaderScan(store,
                         PushUnlessExisting(store, acc, apiEndpointUuid,
                                            BASIC_AUTHENTICATION_DETECTED,
                                            basicAuthDescription,
                                            [trace |-> apiTrace]),
                         requestHeaders, i + 1, TRUE, apiEndpointUuid,
                         apiTrace)
         ELSE HeaderScan(store, acc, requestHeaders, i + 1, found,
                         apiEndpointUuid, apiTrace)

\* apiTrace?.requestHeaders
RequestHeadersOf(apiTrace) ==
    IF apiTrace = None THEN None ELSE apiTrace[1].requestHeaders

BasicAuthScan(store, acc, dataField, apiEndpointUuid, apiTrace) ==
    IF dataField.dataSection = REQUEST_HEADER
       /\ RequestHeadersOf(apiTrace) # None
    THEN HeaderScan(store, acc, RequestHeadersOf(apiTrace)[1], 1, FALSE,
                    apiEndpointUuid, apiTrace)
    ELSE acc

\* Variant: the description cites the 0-based index.
RECURSIVE MutPathScan(_, _, _, _, _)
MutPathScan(endpointPathTokens, i, dataField, dataClass, found) ==
    IF i > Len(endpointPathTokens)
    THEN found
    ELSE IF endpointPathTokens[i] = "{" \o dataField.dataPath \o "}"
         THEN MutPathScan(endpointPathTokens, i + 1, dataField, dataClass,
                          [pathTokenIdx |-> Some(i - 1),
                           description |->
                               "Path Parameter at position " \o ToString(i - 1)
                                   \o " contains sensitive data of type "
                                   \o dataClass \o "."])
         ELSE MutPathScan(endpointPathTokens, i + 1, dataField, dataClass, found)

\* The loop over the endpoint's path tokens; every token is visited, so the
\* last matching token decides.  i is 1-based here, pathTokenIdx 0-based.
RECURSIVE PathScan(_, _, _, _, _)
PathScan(endpointPathTokens, i, dataField, dataClass, found) ==
    IF i > Len(endpointPathTokens)
    THEN found
    ELSE IF endpointPathTokens[i] = "{" \o dataField.dataPath \o "}"
         THEN PathScan(endpointPathTokens, i + 1, dataField, dataClass,
                       [pathTokenIdx |-> Some(i - 1),
                        description |->
                            "Path Parameter at position " \o ToString(i)
                                \o " contains sensitive data of type "
                                \o dataClass \o "."])
         ELSE PathScan(endpointPathTokens, i + 1, dataField, dataClass, found)

SensitivePath(apiEndpointPath, dataField, dataClass) ==
    PathScan(getPathTokens(apiEndpointPath), 1, dataField, dataClass,
             [pathTokenIdx |-> None,
              description |->
                  "Path Parameters contain sensitive data of type "
                      \o dataClass \o "."])

\* alertsToAdd for one data class of one data field
AlertsToAdd(dataField, dataClass, apiEndpointPath, apiTrace) ==
    <<[description |->
           "Sensitive data of type " \o dataClass
               \o " has been detected in field '" \o dataField.dataPath
               \o "' of " \o DATA_SECTION_TO_LABEL_MAP(dataField.dataSection)
               \o ".",
       type |-> PII_DATA_DETECTED,
       context |-> [trace |-> apiTrace]]>>
    \o (IF dataField.dataSection = REQUEST_QUERY
        THEN <<[description |->
                    "Query Parameter '" \o dataField.dataPath
                        \o "' contains sensitive data of type "
                        \o dataClass \o ".",
                type |-> QUERY_SENSITIVE_DATA,
                context |-> [trace |-> apiTrace]]>>
        ELSE <<>>)
    \o (IF dataField.dataSection = REQUEST_PATH
        THEN <<[description |->
                    SensitivePath(apiEndpointPath, dataField,
                                  dataClass).description,
                type |-> PATH_SENSITIVE_DATA,
                context |->
                    [trace |-> apiTrace,
                     pathTokenIdx |->
                         SensitivePath(apiEndpointPath, dataField,
                                       dataClass).pathTokenIdx]]>>
        ELSE <<>>)

RECURSIVE AddAll(_, _, _, _)
AddAll(store, acc, alertsToAdd, apiEndpointUuid) ==
    IF alertsToAdd = <<>>
    THEN acc
    ELSE AddAll(store,
                PushUnlessExisting(store, acc, apiEndpointUuid,
                                   Head(alertsToAdd).type,
                                   Head(alertsToAdd).description,
                                   Head(alertsToAdd).context),
                Tail(alertsToAdd), apiEndpointUuid)

RECURSIVE DataClassLoop(_, _, _, _, _, _, _)
DataClassLoop(store, acc, dataField, dataClasses, apiEndpointUuid, apiEndpointPath, apiTrace) ==
    IF dataClasses = <<>>
    THEN acc
    ELSE DataClassLoop(store,
                       AddAll(store, acc,
                              AlertsToAdd(dataField, Head(dataClasses),
                                          apiEndpointPath, apiTrace),
                              apiEndpointUuid),
                       dataField, Tail(dataClasses), apiEndpointUuid,
                       apiEndpointPath, apiTrace)

\* The body of the loop over dataFields
DataFieldStep(store, acc, dataField, apiEndpointUuid, apiEndpointPath, apiTrace) ==
    LET scanned ==
            BasicAuthScan(store, acc, dataField, apiEndpointUuid, apiTrace)
    IN  IF dataField.dataClasses = None
        THEN scanned
        ELSE DataClassLoop(store, scanned, dataField,
                           dataField.dataClasses[1], apiEndpointUuid,
                           apiEndpointPath, apiTrace)

RECURSIVE DataFieldLoop(_, _, _, _, _, _)
DataFieldLoop(store, acc, dataFields, apiEndpointUuid, apiEndpointPath, apiTrace) ==
    IF dataFields = <<>>
    THEN acc
    ELSE DataFieldLoop(store,
                       DataFieldStep(store, acc, Head(dataFields),
                                     apiEndpointUuid, apiEndpointPath,
                                     apiTrace),
                       Tail(dataFields), apiEndpointUuid, apiEndpointPath,
                       apiTrace)

CreateDataFieldAlerts(store, dataFields, apiEndpointUuid, apiEndpointPath, apiTrace, sensitiveDataAlerts, fault) ==
    IF dataFields = None
    THEN TryCatch(EmptyBatch)
    ELSE TryCatch(DataFieldLoop(store,
                                [EmptyBatch EXCEPT
                                    !.alerts = IF sensitiveDataAlerts = None
                                               THEN <<>>
                                               ELSE sensitiveDataAlerts[1],
                                    !.fault = fault],
                                dataFields[1], apiEndpointUuid,
                                apiEndpointPath, apiTrace))

-----------------------------------------------------------------------------
(* AlertService.createSpecDiffAlerts                                       *)

\* An OpenApiSpec is [name, extension, spec, minimizedSpecContext].  Its
\* text `spec` is [lines, keyLines]: the lines of the document and, for the
\* pointer-paths of the keys it holds, the line each key stands on as the
\* source-map library reports it (0-based for json-source-map, 1-based for
\* js-yaml-source-map).  A pointer-path is a sequence of tokens, a token a
\* sequence of characters.

Min(a, b) == IF a < b THEN a ELSE b
Max(a, b) == IF a > b THEN a ELSE b

\* Array.prototype.slice(start, end)
JsSliceIndex(n, k) == IF k < 0 THEN Max(n + k, 0) ELSE Min(k, n)
JsSlice(seq, start, end) ==
    SubSeq(seq, JsSliceIndex(Len(seq), start) + 1, JsSliceIndex(Len(seq), end))

\* Array.prototype.join(sep) on strings
RECURSIVE JoinStrings(_, _)
JoinStrings(strs, sep) ==
    IF strs = <<>> THEN ""
    ELSE IF Len(strs) = 1 THEN Head(strs)
    ELSE Head(strs) \o sep \o JoinStrings(Tail(strs), sep)

\* pathPointer.join("."), on tokens that are character sequences
RECURSIVE JoinTokens(_, _)
JoinTokens(tokens, sep) ==
    IF tokens = <<>> THEN <<>>
    ELSE IF Len(tokens) = 1 THEN Head(tokens)
    ELSE Head(tokens) \o <<sep>> \o JoinTokens(Tail(tokens), sep)

\* pathToken.replace(/\//g, "~1")
RECURSIVE EscapeSlash(_)
EscapeSlash(token) ==
    IF token = <<>> THEN <<>>
    ELSE (IF Head(token) = "/" THEN <<"~", "1">> ELSE <<Head(token)>>)
             \o EscapeSlash(Tail(token))

\* the loop building pathKey: "/" + escaped token, for every token
RECURSIVE PathKey(_)
PathKey(pathPointer) ==
    IF pathPointer = <<>> THEN <<>>
    ELSE <<"/">> \o EscapeSlash(Head(pathPointer)) \o PathKey(Tail(pathPointer))

\* json-source-map: the JSON pointer (RFC 6901) of a key, "~" as "~0" and
\* "/" as "~1"
RECURSIVE Rfc6901Escape(_)
Rfc6901Escape(token) ==
    IF token = <<>> THEN <<>>
    ELSE (CASE Head(token) = "~" -> <<"~", "0">>
            [] Head(token) = "/" -> <<"~", "1">>
            [] OTHER -> <<Head(token)>>)
             \o Rfc6901Escape(Tail(token))

RECURSIVE Rfc6901Pointer(_)
Rfc6901Pointer(path) ==
    IF path = <<>> THEN <<>>
    ELSE <<"/">> \o Rfc6901Escape(Head(path)) \o Rfc6901Pointer(Tail(path))

\* jsonMap.parse(spec).pointers?.[pathKey]?.key?.line
JsonKeyLine(spec, pathKey) ==
    IF \E p \in DOMAIN spec.keyLines : Rfc6901Pointer(p) = pathKey
    THEN Some(spec.keyLines[CHOOSE p \in DOMAIN spec.keyLines : Rfc6901Pointer(p) = pathKey])
    ELSE None

\* map.lookup(pathPointer): the location of the path, or undefined
YamlLookup(spec, pathPointer) ==
    IF pathPointer \in DOMAIN spec.keyLines
    THEN Some(spec.keyLines[pathPointer])
    ELSE None

\* The line the lookup settles on: [threw, lineNumber], lineNumber None when
\* it is falsy at `if (lineNumber)` (null, undefined or 0).  Reading .line of
\* an undefined YAML location throws.
LocateLine(openApiSpec, pathPointer) ==
    CASE openApiSpec.extension = JSON ->
           LET line == JsonKeyLine(openApiSpec.spec, PathKey(pathPointer))
           IN  [threw |-> FALSE,
                lineNumber |-> IF line = None \/ line = Some(0) THEN None
                               ELSE Some(line[1] + 1)]
      [] openApiSpec.extension = YAML ->
           LET loc == YamlLookup(openApiSpec.spec, pathPointer)
           IN  IF loc = None
               THEN [threw |-> TRUE, lineNumber |-> None]
               ELSE [threw |-> FALSE,
                     lineNumber |-> IF loc = Some(0) \/ loc = Some(1) THEN None
                                    ELSE Some(loc[1] - 1)]
      [] OTHER -> [threw |-> FALSE, lineNumber |-> None]

MinimizedString(spec, lineNumber) ==
    JoinStrings(JsSlice(spec.lines, lineNumber - 5, lineNumber + 5), "\n")

\* openApiSpec.minimizedSpecContext[minimizedSpecKey] = {...}
WithEntry(context, key, entry) ==
    [k \in DOMAIN context \cup {key} |-> IF k = key THEN entry ELSE context[k]]

\* Variant: the cache is not consulted, the line is looked up every time.
MutLocated(openApiSpec, context, pathPointer) ==
    LET minimizedSpecKey == JoinTokens(pathPointer, ".")
        found == LocateLine(openApiSpec, pathPointer)
    IN  IF found.threw
        THEN [threw |-> TRUE, parsed |-> <<minimizedSpecKey>>, context |-> context]
        ELSE IF found.lineNumber = None
        THEN [threw |-> FALSE, parsed |-> <<minimizedSpecKey>>, context |-> context]
        ELSE [threw |-> FALSE, parsed |-> <<minimizedSpecKey>>,
              context |->
                  WithEntry(context, minimizedSpecKey,
                            [lineNumber |-> found.lineNumber[1],
                             minimizedSpec |->
                                 MinimizedString(openApiSpec.spec,
                                                 found.lineNumber[1])])]

\* The cache part of one iteration: the in-memory minimizedSpecContext after
\* it, whether the lookup threw and, for the record, the key the document
\* was parsed for, if it was.
Located(openApiSpec, context, pathPointer) ==
    LET minimizedSpecKey == JoinTokens(pathPointer, ".")
        found == LocateLine(openApiSpec, pathPointer)
    IN  IF minimizedSpecKey \in DOMAIN context
        THEN [threw |-> FALSE, parsed |-> <<>>, context |-> context]
        ELSE IF found.threw
        THEN [threw |-> TRUE, parsed |-> <<minimizedSpecKey>>, context |-> context]
        ELSE IF found.lineNumber = None
        THEN [threw |-> FALSE, parsed |-> <<minimizedSpecKey>>, context |-> context]
        ELSE [threw |-> FALSE, parsed |-> <<minimizedSpecKey>>,
              context |->
                  WithEntry(context, minimizedSpecKey,
                            [lineNumber |-> found.lineNumber[1],
                             minimizedSpec |->
                                 MinimizedString(openApiSpec.spec,
                                                 found.lineNumber[1])])]

\* Variant: the write merges the entries into the stored document.
MutUpdateMinimizedSpecContext(stored, context) ==
    [k \in DOMAIN stored \cup DOMAIN context |-> IF k \in DOMAIN context THEN context[k] ELSE stored[k]]

\* update(OpenApiSpec).set({ minimizedSpecContext:
\* openApiSpec.minimizedSpecContext }): the stored document is replaced by
\* the call's own.
UpdateMinimizedSpecContext(stored, context) ==
    context

\* One iteration of the loop over the keys of alertItems; item is
\* <<key, pathPointer>>.  acc.context is the call's openApiSpec
\* .minimizedSpecContext, acc.stored the persisted one.
SpecDiffStep(store, acc, item, apiEndpointUuid, apiTrace, openApiSpec) ==
    LET existing == ExistingUnresolvedAlert(store, apiEndpointUuid, OPEN_API_SPEC_DIFF, item[1])
        located == Located(openApiSpec, acc.context, item[2])
        findings == Append(acc.findings, Key(apiEndpointUuid, OPEN_API_SPEC_DIFF, item[1]))
        looked == Awaited(acc)
        pushed ==
            IF existing
            THEN [looked EXCEPT !.findings = findings]
            ELSE IF located.threw
            THEN [looked EXCEPT !.findings = findings, !.threw = TRUE, !.parsed = acc.parsed \o located.parsed]
            ELSE [looked EXCEPT
                     !.alerts = Append(acc.alerts,
                                       Draft(OPEN_API_SPEC_DIFF,
                                             apiEndpointUuid, item[1],
                                             [pathPointer |-> item[2],
                                              trace |-> apiTrace])),
                     !.findings = findings,
                     !.parsed = acc.parsed \o located.parsed,
                     !.context = located.context]
    IN  IF Throws(acc)
        THEN Thrown(acc)
        ELSE IF pushed.threw
        THEN pushed
        ELSE IF Throws(pushed)
        THEN Thrown(pushed)
        ELSE [Awaited(pushed) EXCEPT !.stored = UpdateMinimizedSpecContext(acc.stored, pushed.context)]

RECURSIVE SpecDiffLoop(_, _, _, _, _, _)
SpecDiffLoop(store, acc, items, apiEndpointUuid, apiTrace, openApiSpec) ==
    IF items = <<>> \/ acc.threw
    THEN acc
    ELSE SpecDiffLoop(store,
                      SpecDiffStep(store, acc, Head(items), apiEndpointUuid,
                                   apiTrace, openApiSpec),
                      Tail(items), apiEndpointUuid, apiTrace, openApiSpec)

\* The call's outcome: the drafts it returns ([] from the catch block), the
\* findings it examined and the minimizedSpecContext it left in the store.
\* alertItems is the sequence of the record's <<key, pathPointer>> entries in
\* iteration order; `stored` is the persisted context when the call starts.
CreateSpecDiffAlerts(store, stored, alertItems, apiEndpointUuid, apiTrace, openApiSpec, fault) ==
    LET start == [alerts |-> <<>>, findings |-> <<>>,
                  context |-> openApiSpec.minimizedSpecContext,
                  stored |-> stored, fault |-> fault, threw |-> FALSE,
                  parsed |-> <<>>]
        done == IF alertItems = None \/ alertItems = Some(<<>>)
                THEN [start EXCEPT !.fault = 0]
                ELSE SpecDiffLoop(store, start, alertItems[1],
                                  apiEndpointUuid, apiTrace, openApiSpec)
    IN  [alerts |-> TryCatch(done).alerts,
         findings |-> done.findings,
         stored |-> done.stored,
         context |-> done.context,
         threw |-> done.threw,
         err |-> TryCatch(done).err,
         pushed |-> done.alerts,
         parsed |-> done.parsed]

-----------------------------------------------------------------------------
(* The values the calls are explored with                                  *)

Endpoint1 == [uuid |-> "e1", path |-> <<"/", "users", "/", "{id}", "/", "profile">>]
Endpoint2 == [uuid |-> "e2", path |-> <<"/", "login">>]
Endpoints == {Endpoint1, Endpoint2}

BasicHeader == [name |-> <<"A", "u", "t", "h", "o", "r", "i", "z", "a", "t", "i", "o", "n">>, value |-> <<"B", "a", "s", "i", "c", " ", "x">>]
Trace1 == [host |-> "api.test", path |-> "login", requestHeaders |-> Some(<<BasicHeader>>)]

\* resolutionMessage of UpdateAlertParams: absent, empty, blank, padded, plain
ResolutionMessages == {None, Some(<<>>), Some(<<" ">>), Some(<<" ", "o", "k", " ">>), Some(<<"o", "k">>)}

\* updateType: the four commands and one that is none of them
UpdateTypes == UpdateAlertType \cup {"DELETE"}

\* Sequences over S of length at most n
SeqUpTo(S, n) == UNION {[1..k -> S] : k \in 0..n}

HSTSDescription == "Strict-Transport-Security header is missing."
HSTSProps == {<<e, Trace1, HSTSDescription>> : e \in Endpoints}

\* A JSON spec document of four lines whose key "paths" stands on line 1
\* (0-based) and whose key "paths"/"/login" stands on line 2.
TokPaths == <<"p", "a", "t", "h", "s">>
TokLogin == <<"/", "l", "o", "g", "i", "n">>
SpecText == [lines |-> <<"{", "paths:{", "/login:{}", "}}">>, keyLines |-> (<<TokPaths>> :> 1) @@ (<<TokPaths, TokLogin>> :> 2)]
JsonSpec(context) == [name |-> "spec", extension |-> JSON, spec |-> SpecText, minimizedSpecContext |-> context]

DiffKey == "Required property 'id' is missing from response body"
DiffItemsSet == {None, Some(<<>>), Some(<<<<DiffKey, <<TokPaths, TokLogin>>>>>>)}

HeaderField == [dataSection |-> REQUEST_HEADER, dataPath |-> "Authorization", dataClasses |-> None]
QueryField == [dataSection |-> REQUEST_QUERY, dataPath |-> "email", dataClasses |-> Some(<<"Email">>)]
DataFieldsSet == {None, Some(<<HeaderField>>)}

NoCall == [op |-> "none", alertId |-> 0, updateType |-> "", resolutionMessage |-> None, err |-> "none", msg |-> "", returned |-> <<>>, findings |-> <<>>, supplied |-> <<>>, count |-> 0, threw |-> FALSE, pushed |-> <<>>, parsed |-> <<>>]

-----------------------------------------------------------------------------
(* The calls as steps of the system.  A finding-ingestion step is the call *)
(* of the factory followed by the caller saving the drafts it returned.    *)

UpdateAlert(alertId, updateType, resolutionMessage) ==
    LET outcome == UpdateSwitch(alerts[alertId], updateType, resolutionMessage)
    IN  /\ alerts' = StoreAfterUpdate(alerts, alertId, outcome)
        /\ last' = [NoCall EXCEPT !.op = "updateAlert", !.alertId = alertId, !.updateType = updateType, !.resolutionMessage = resolutionMessage, !.err = outcome.err, !.msg = outcome.msg]
        /\ UNCHANGED <<specContext, input>>

Ingested(op, batch) ==
    /\ Len(alerts) + Len(batch.alerts) <= MaxAlerts
    /\ alerts' = Save(alerts, batch.alerts)
    /\ last' = [NoCall EXCEPT !.op = op, !.returned = batch.alerts, !.findings = batch.findings]

IngestAlert(alertType, apiEndpoint, description, noDuplicate) ==
    LET draft == CreateAlert(alerts, alertType, apiEndpoint, description, None, noDuplicate)
    IN  /\ Ingested("createAlert", [alerts |-> draft, findings |-> IF noDuplicate THEN <<Key(apiEndpoint.uuid, alertType, AlertDescription(alertType, apiEndpoint, description))>> ELSE <<>>])
        /\ UNCHANGED <<specContext, input>>

IngestMissingHSTS(alertProps) ==
    /\ Ingested("createMissingHSTSAlert", CreateMissingHSTSAlert(alerts, alertProps, 0))
    /\ UNCHANGED <<specContext, input>>

IngestSpecDiff(alertItems, apiEndpointUuid) ==
    LET out == CreateSpecDiffAlerts(alerts, specContext, alertItems, apiEndpointUuid, Some(Trace1), JsonSpec(specContext), 0)
    IN  /\ Ingested("createSpecDiffAlerts", out)
        /\ specContext' = out.stored
        /\ UNCHANGED input

IngestDataFields(dataFields, apiEndpoint) ==
    /\ Ingested("createDataFieldAlerts", CreateDataFieldAlerts(alerts, dataFields, apiEndpoint.uuid, apiEndpoint.path, Some(Trace1), None, 0))
    /\ UNCHANGED <<specContext, input>>

Init ==
    /\ alerts = <<>>
    /\ specContext = <<>>
    /\ input = None
    /\ last = NoCall

\* Finding ingestion with duplicate suppression, interleaved with lifecycle
\* commands (which carry no resolution message here).
Next ==
    \/ \E alertId \in DOMAIN alerts, updateType \in UpdateTypes : UpdateAlert(alertId, updateType, None)
    \/ IngestAlert(NEW_ENDPOINT, Endpoint1, None, TRUE)
    \/ \E alertProps \in {None} \cup {Some(s) : s \in SeqUpTo(HSTSProps, MaxBatch)} : IngestMissingHSTS(alertProps)
    \/ \E alertItems \in DiffItemsSet : IngestSpecDiff(alertItems, Endpoint1.uuid)
    \/ \E dataFields \in DataFieldsSet : IngestDataFields(dataFields, Endpoint1)

Spec == Init /\ [][Next]_vars

\* Lifecycle commands with every update type and resolution message, on
\* alerts raised by createAlert.
NextLifecycle ==
    \/ \E alertId \in DOMAIN alerts, updateType \in UpdateTypes \ {RESOLVE} : UpdateAlert(alertId, updateType, None)
    \/ \E alertId \in DOMAIN alerts, resolutionMessage \in ResolutionMessages : UpdateAlert(alertId, RESOLVE, resolutionMessage)
    \/ \E apiEndpoint \in Endpoints, noDuplicate \in BOOLEAN : IngestAlert(NEW_ENDPOINT, apiEndpoint, None, noDuplicate)

SpecLifecycle == Init /\ [][NextLifecycle]_vars

-----------------------------------------------------------------------------
(* createDataFieldAlerts as a function of its arguments and of the store   *)

MaxFields == 2

Endpoint3 == [uuid |-> "e3", path |-> <<"/", "{id}", "/", "x", "/", "/", "{id}">>]
PathEndpoints == {Endpoint1, Endpoint2, Endpoint3}

PathIdField == [dataSection |-> REQUEST_PATH, dataPath |-> "id", dataClasses |-> Some(<<"Email">>)]
PathNameField == [dataSection |-> REQUEST_PATH, dataPath |-> "name", dataClasses |-> Some(<<"Email", "Phone">>)]
HeaderEmailField == [dataSection |-> REQUEST_HEADER, dataPath |-> "X-User", dataClasses |-> Some(<<"Email">>)]
Fields == {HeaderField, HeaderEmailField, QueryField, PathIdField, PathNameField}

BasicHeaderUpper == [name |-> <<"A", "U", "T", "H", "O", "R", "I", "Z", "A", "T", "I", "O", "N">>, value |-> <<"x", " ", "B", "A", "S", "I", "C", " ", "y">>]
BearerHeader == [name |-> <<"a", "u", "t", "h", "o", "r", "i", "z", "a", "t", "i", "o", "n">>, value |-> <<"B", "e", "a", "r", "e", "r", " ", "b", "a", "s", "i", "c">>]
OtherHeader == [name |-> <<"x", "-", "a", "u", "t", "h">>, value |-> <<"b", "a", "s", "i", "c", " ", "y">>]
HeaderLists == {<<>>, <<BasicHeader>>, <<BasicHeaderUpper, BasicHeader>>, <<BearerHeader, OtherHeader>>, <<OtherHeader, BasicHeaderUpper>>}
Traces == {None, Some([host |-> "api.test", path |-> "login", requestHeaders |-> None])} \cup {Some([host |-> "api.test", path |-> "login", requestHeaders |-> Some(h)]) : h \in HeaderLists}

BasicDraft(apiEndpointUuid) == Draft(BASIC_AUTHENTICATION_DETECTED, apiEndpointUuid, basicAuthDescription, [trace |-> None])
PathDraft(apiEndpointUuid) == Draft(PATH_SENSITIVE_DATA, apiEndpointUuid, "Path Parameter at position 2 contains sensitive data of type Email.", [trace |-> None, pathTokenIdx |-> Some(1)])
SuppliedBatches == {None, Some(<<>>), Some(<<BasicDraft("e1")>>)}

\* Stores the call may find: empty, or one alert raised by an earlier call
\* that is still open or has been resolved since.
Stores == {<<>>, <<Persisted(BasicDraft("e1"), 1)>>, <<[Persisted(BasicDraft("e1"), 1) EXCEPT !.status = RESOLVED]>>, <<[Persisted(PathDraft("e1"), 1) EXCEPT !.status = IGNORED]>>}

DataFieldInputs == [dataFields : {None} \cup {Some(f) : f \in SeqUpTo(Fields, MaxFields)}, apiEndpoint : PathEndpoints, apiTrace : Traces, sensitiveDataAlerts : SuppliedBatches]

InitDataField ==
    /\ alerts \in Stores
    /\ specContext = <<>>
    /\ input \in {Some(i) : i \in DataFieldInputs}
    /\ last = NoCall

ApplyDataFields ==
    /\ last = NoCall
    /\ input # None
    /\ LET in == input[1]
           batch == CreateDataFieldAlerts(alerts, in.dataFields, in.apiEndpoint.uuid, in.apiEndpoint.path, in.apiTrace, in.sensitiveDataAlerts, 0)
       IN  last' = [NoCall EXCEPT !.op = "createDataFieldAlerts", !.returned = batch.alerts, !.findings = batch.findings, !.supplied = IF in.dataFields = None \/ in.sensitiveDataAlerts = None THEN <<>> ELSE in.sensitiveDataAlerts[1]]
    /\ UNCHANGED <<alerts, specContext, input>>

NextDataField == ApplyDataFields

SpecDataField == InitDataField /\ [][NextDataField]_vars

-----------------------------------------------------------------------------
(* The three batch factories as functions of their arguments, of the store *)
(* and of the repository operation that rejects, if one does               *)

MaxFault == 4

\* Spec documents: the JSON one above and a YAML one of three lines whose key
\* "paths" stands on line 1 (1-based) and "paths"/"/login" on line 2.
TokMissing == <<"x">>
PtrPaths == <<TokPaths>>
PtrLogin == <<TokPaths, TokLogin>>
PtrMissing == <<TokPaths, TokMissing>>
YamlText == [lines |-> <<"paths:", "  /login:", "    get: {}">>, keyLines |-> (PtrPaths :> 1) @@ (PtrLogin :> 2)]
OpenApiSpecOf(extension, context) == [name |-> "spec", extension |-> extension, spec |-> IF extension = YAML THEN YamlText ELSE SpecText, minimizedSpecContext |-> context]

\* alertItems: a record has one entry per key, listed in insertion order
DiffKey2 == "Property 'name' is present in response body without being defined in OpenAPI Spec"
DiffKey3 == "Required property 'x' is missing from request body"
DiffItems == {<<DiffKey, PtrLogin>>, <<DiffKey2, PtrPaths>>, <<DiffKey3, PtrMissing>>}
DistinctKeys(items) == \A i, j \in DOMAIN items : i # j => items[i][1] # items[j][1]
AlertItemsSet == {None} \cup {Some(items) : items \in {q \in SeqUpTo(DiffItems, MaxBatch) : DistinctKeys(q)}}

DiffDraft(key, pathPointer) == Draft(OPEN_API_SPEC_DIFF, "e1", key, [pathPointer |-> pathPointer, trace |-> Some(Trace1)])
FaultStores == {<<>>, <<Persisted(DiffDraft(DiffKey, PtrLogin), 1)>>, <<[Persisted(Draft(UNSECURED_ENDPOINT_DETECTED, "e1", HSTSDescription, None), 1) EXCEPT !.status = IGNORED]>>}
FaultFields == {HeaderField, QueryField, PathIdField}

NoArgs == [op |-> "none", alertProps |-> None, alertItems |-> None, extension |-> JSON, dataFields |-> None, sensitiveDataAlerts |-> None, fault |-> 0]
FaultCalls ==
    {[NoArgs EXCEPT !.op = "createMissingHSTSAlert", !.alertProps = a, !.fault = f] : a \in {None} \cup {Some(q) : q \in SeqUpTo(HSTSProps, MaxBatch)}, f \in 0..MaxFault}
    \cup {[NoArgs EXCEPT !.op = "createSpecDiffAlerts", !.alertItems = a, !.extension = x, !.fault = f] : a \in AlertItemsSet, x \in {JSON, YAML}, f \in 0..MaxFault}
    \cup {[NoArgs EXCEPT !.op = "createDataFieldAlerts", !.dataFields = d, !.sensitiveDataAlerts = b, !.fault = f] : d \in {None} \cup {Some(q) : q \in SeqUpTo(FaultFields, MaxFields)}, b \in SuppliedBatches, f \in 0..MaxFault}

InitFault ==
    /\ alerts \in FaultStores
    /\ specContext = <<>>
    /\ input \in {Some(c) : c \in FaultCalls}
    /\ last = NoCall

\* What a factory call leaves for inspection
Outcome(op, out) ==
    [NoCall EXCEPT !.op = op, !.returned = out.alerts, !.findings = out.findings, !.err = out.err, !.threw = out.threw, !.pushed = out.pushed]

ApplyMissingHSTS ==
    /\ last = NoCall
    /\ input # None
    /\ input[1].op = "createMissingHSTSAlert"
    /\ last' = Outcome("createMissingHSTSAlert", CreateMissingHSTSAlert(alerts, input[1].alertProps, input[1].fault))
    /\ UNCHANGED <<alerts, specContext, input>>

ApplySpecDiff ==
    /\ last = NoCall
    /\ input # None
    /\ input[1].op = "createSpecDiffAlerts"
    /\ LET out == CreateSpecDiffAlerts(alerts, specContext, input[1].alertItems, "e1", Some(Trace1), OpenApiSpecOf(input[1].extension, specContext), input[1].fault)
       IN  /\ last' = Outcome("createSpecDiffAlerts", out)
           /\ specContext' = out.stored
    /\ UNCHANGED <<alerts, input>>

ApplyDataFieldsFault ==
    /\ last = NoCall
    /\ input # None
    /\ input[1].op = "createDataFieldAlerts"
    /\ last' = Outcome("createDataFieldAlerts", CreateDataFieldAlerts(alerts, input[1].dataFields, Endpoint1.uuid, Endpoint1.path, Some(Trace1), input[1].sensitiveDataAlerts, input[1].fault))
    /\ UNCHANGED <<alerts, specContext, input>>

NextFault == ApplyMissingHSTS \/ ApplySpecDiff \/ ApplyDataFieldsFault

SpecFault == InitFault /\ [][NextFault]_vars

-----------------------------------------------------------------------------
(* createSpecDiffAlerts called again and again on one OpenApiSpec, each    *)
(* call with the spec as the store holds it; alerts are resolved in        *)
(* between.  input is the last call's arguments.                           *)

DiffKey4 == "Property 'id' must be integer in response body"
CacheItems == {<<DiffKey, PtrLogin>>, <<DiffKey3, PtrMissing>>, <<DiffKey4, PtrLogin>>}
CacheItemsSet == {None} \cup {Some(items) : items \in {q \in SeqUpTo(CacheItems, MaxBatch) : DistinctKeys(q)}}

IngestSpecDiffOn(alertItems, extension) ==
    \E out \in {CreateSpecDiffAlerts(alerts, specContext, alertItems, "e1", Some(Trace1), OpenApiSpecOf(extension, specContext), 0)} :
        /\ IF input = None THEN TRUE ELSE input[1].extension = extension
        /\ Len(alerts) + Len(out.alerts) <= MaxAlerts
        /\ alerts' = Save(alerts, out.alerts)
        /\ specContext' = out.stored
        /\ input' = Some([NoArgs EXCEPT !.op = "createSpecDiffAlerts", !.alertItems = alertItems, !.extension = extension])
        /\ last' = [Outcome("createSpecDiffAlerts", out) EXCEPT !.parsed = out.parsed]

NextCache ==
    \/ \E alertItems \in CacheItemsSet, extension \in {JSON, YAML} : IngestSpecDiffOn(alertItems, extension)
    \/ \E alertId \in DOMAIN alerts, updateType \in {RESOLVE} : UpdateAlert(alertId, updateType, None)

SpecCache == Init /\ [][NextCache]_vars

-----------------------------------------------------------------------------
(* Concurrent callers.  Each caller makes one ingestion call; what is one  *)
(* step is what runs between two points where the caller's work can be    *)
(* overtaken: loading the OpenApiSpec, the factory call on the store as it *)
(* stands, the save of the drafts the call returned.  input maps each      *)
(* caller to its progress; storeThen, loaded and writtenBefore record what *)
(* the caller saw when it checked, loaded and wrote.                       *)

MaxCallers == 2

Callers == 1..MaxCallers
Idle == [pc |-> "idle", op |-> "none", arg |-> "", drafts |-> <<>>, storeThen |-> <<>>, loaded |-> <<>>, wrote |-> <<>>, writtenBefore |-> {}]
RaceItems == {<<DiffKey, PtrLogin>>, <<DiffKey2, PtrPaths>>}

InitRace ==
    /\ alerts = <<>>
    /\ specContext = <<>>
    /\ input = [p \in Callers |-> Idle]
    /\ last = NoCall

\* createAlert(NEW_ENDPOINT, apiEndpoint, undefined, undefined, true)
CallCreateAlert(p, apiEndpoint) ==
    LET draft == CreateAlert(alerts, NEW_ENDPOINT, apiEndpoint, None, None, TRUE)
    IN  /\ input[p].pc = "idle"
        /\ input' = [input EXCEPT ![p] = [Idle EXCEPT !.pc = "returned", !.op = "createAlert", !.arg = apiEndpoint.uuid, !.drafts = draft, !.storeThen = alerts]]
        /\ last' = [NoCall EXCEPT !.op = "createAlert", !.returned = draft]
        /\ UNCHANGED <<alerts, specContext>>

\* createDataFieldAlerts for a trace with a basic-authentication header
CallCreateDataFieldAlerts(p, apiEndpoint) ==
    \E out \in {CreateDataFieldAlerts(alerts, Some(<<HeaderField>>), apiEndpoint.uuid, apiEndpoint.path, Some(Trace1), None, 0)} :
        /\ input[p].pc = "idle"
        /\ input' = [input EXCEPT ![p] = [Idle EXCEPT !.pc = "returned", !.op = "createDataFieldAlerts", !.arg = apiEndpoint.uuid, !.drafts = out.alerts, !.storeThen = alerts]]
        /\ last' = Outcome("createDataFieldAlerts", out)
        /\ UNCHANGED <<alerts, specContext>>

\* The caller loads the OpenApiSpec it will pass to createSpecDiffAlerts.
LoadSpec(p) ==
    /\ input[p].pc = "idle"
    /\ input' = [input EXCEPT ![p] = [Idle EXCEPT !.pc = "loaded", !.op = "createSpecDiffAlerts", !.loaded = specContext]]
    /\ last' = [NoCall EXCEPT !.op = "loadSpec"]
    /\ UNCHANGED <<alerts, specContext>>

\* createSpecDiffAlerts({ [item[1]]: item[2] }, ...) on the caller's copy
CallCreateSpecDiffAlerts(p, item) ==
    \E out \in {CreateSpecDiffAlerts(alerts, specContext, Some(<<item>>), "e1", Some(Trace1), OpenApiSpecOf(JSON, input[p].loaded), 0)} :
        /\ input[p].pc = "loaded"
        /\ specContext' = out.stored
        /\ input' = [input EXCEPT ![p] = [@ EXCEPT !.pc = "returned", !.arg = item[1], !.drafts = out.alerts, !.storeThen = alerts, !.wrote = out.stored, !.writtenBefore = {q \in Callers : input[q].op = "createSpecDiffAlerts" /\ input[q].pc \in {"returned", "done"}}]]
        /\ last' = [Outcome("createSpecDiffAlerts", out) EXCEPT !.parsed = out.parsed]
        /\ UNCHANGED alerts

\* The caller saves the drafts its call returned.
SaveDrafts(p) ==
    /\ input[p].pc = "returned"
    /\ alerts' = Save(alerts, input[p].drafts)
    /\ input' = [input EXCEPT ![p] = [@ EXCEPT !.pc = "done"]]
    /\ last' = [NoCall EXCEPT !.op = "save", !.returned = input[p].drafts]
    /\ UNCHANGED specContext

NextRace ==
    \/ \E p \in Callers, apiEndpoint \in Endpoints : CallCreateAlert(p, apiEndpoint)
    \/ \E p \in Callers : CallCreateDataFieldAlerts(p, Endpoint1)
    \/ \E p \in Callers : LoadSpec(p)
    \/ \E p \in Callers, item \in RaceItems : CallCreateSpecDiffAlerts(p, item)
    \/ \E p \in Callers : SaveDrafts(p)

SpecRace == InitRace /\ [][NextRace]_vars

-----------------------------------------------------------------------------
(* Concurrent updateAlert calls.  A call is two steps: the awaited findOne *)
(* that loads the alert, then the switch on the loaded entity and the      *)
(* awaited update that writes the whole entity.  Other callers' steps can  *)
(* run between the two.  input maps each caller to the call it is in.      *)

IdleUpdate == [pc |-> "idle", alertId |-> 0, updateType |-> "", alert |-> None]

\* The store holds the alert of one createAlert(NEW_ENDPOINT, ...) call.
InitUpdateRace ==
    /\ alerts = Save(<<>>, CreateAlert(<<>>, NEW_ENDPOINT, Endpoint1, None, None, TRUE))
    /\ specContext = <<>>
    /\ input = [p \in Callers |-> IdleUpdate]
    /\ last = NoCall

\* const alert = await alertRepository.findOne({ where: { uuid: alertId } })
LoadAlert(p, alertId, updateType) ==
    /\ input[p].pc = "idle"
    /\ input' = [input EXCEPT ![p] = [pc |-> "loaded", alertId |-> alertId, updateType |-> updateType, alert |-> Some(alerts[alertId])]]
    /\ last' = [NoCall EXCEPT !.op = "findOne", !.alertId = alertId, !.updateType = updateType]
    /\ UNCHANGED <<alerts, specContext>>

\* The switch on the entity the caller loaded, then
\* await alertRepository.update({ uuid: alertId }, alert)
CheckAndWrite(p) ==
    /\ input[p].pc = "loaded"
    /\ \E outcome \in {UpdateSwitch(input[p].alert[1], input[p].updateType, None)} :
           /\ alerts' = StoreAfterUpdate(alerts, input[p].alertId, outcome)
           /\ last' = [NoCall EXCEPT !.op = "updateAlert", !.alertId = input[p].alertId, !.updateType = input[p].updateType, !.err = outcome.err, !.msg = outcome.msg]
    /\ input' = [input EXCEPT ![p] = IdleUpdate]
    /\ UNCHANGED specContext

NextUpdateRace ==
    \/ \E p \in Callers, alertId \in DOMAIN alerts, updateType \in UpdateAlertType : LoadAlert(p, alertId, updateType)
    \/ \E p \in Callers : CheckAndWrite(p)

SpecUpdateRace == InitUpdateRace /\ [][NextUpdateRace]_vars

-----------------------------------------------------------------------------
(* AlertService.getAlerts                                                  *)

\* The columns the listing sorts on that the model gives a value of its own:
\* the status column compares by the status name (IGNORED < OPEN < RESOLVED)
\* and the creation stamp grows with the insertion order, as the uuid of the
\* model does.
StatusRank(status) ==
    CASE status = IGNORED -> 1
      [] status = OPEN -> 2
      [] status = RESOLVED -> 3

createdAt(alert) == alert.uuid

EndpointHost(apiEndpointUuid) == IF apiEndpointUuid = "e2" THEN "auth.test" ELSE "api.test"

\* GetAlertParams with nothing set
NoParams == [apiEndpointUuid |-> None, alertTypes |-> None, riskScores |-> None, hosts |-> None, status |-> None, offset |-> None, limit |-> None, order |-> None]

\* whereConditions: every filter that is set must accept the alert
WhereConditions(alert, alertParams) ==
    /\ alertParams.apiEndpointUuid # None => alert.apiEndpointUuid = alertParams.apiEndpointUuid[1]
    /\ alertParams.alertTypes # None => alert.type \in alertParams.alertTypes[1]
    /\ alertParams.riskScores # None => alert.riskScore \in alertParams.riskScores[1]
    /\ alertParams.hosts # None => EndpointHost(alert.apiEndpointUuid) \in alertParams.hosts[1]
    /\ alertParams.status # None => alert.status \in alertParams.status[1]

\* orderParams: { riskScore: alertParams.order } or { riskScore: "DESC" }
OrderParams(alertParams) ==
    IF alertParams.order # None
    THEN <<[column |-> "riskScore", direction |-> alertParams.order[1]]>>
    ELSE <<[column |-> "riskScore", direction |-> "DESC"]>>

\* Variant: the creation time sorts ascending.
MutOrderClause(alertParams) ==
    <<[column |-> "status", direction |-> "DESC"]>> \o OrderParams(alertParams) \o <<[column |-> "createdAt", direction |-> "ASC"]>>

\* order: { status: "DESC", ...orderParams, createdAt: "DESC" }: the columns
\* of the ORDER BY in the order the object literal lists its keys.
OrderClause(alertParams) ==
    <<[column |-> "status", direction |-> "DESC"]>> \o OrderParams(alertParams) \o <<[column |-> "createdAt", direction |-> "DESC"]>>

ColumnValue(alert, column) ==
    CASE column = "status" -> StatusRank(alert.status)
      [] column = "riskScore" -> alert.riskScore
      [] column = "createdAt" -> createdAt(alert)

\* ORDER BY: does row a come before row b under the order clause
RECURSIVE ComesBefore(_, _, _)
ComesBefore(a, b, order) ==
    IF order = <<>>
    THEN FALSE
    ELSE IF ColumnValue(a, Head(order).column) = ColumnValue(b, Head(order).column)
    THEN ComesBefore(a, b, Tail(order))
    ELSE IF Head(order).direction = "DESC"
    THEN ColumnValue(a, Head(order).column) > ColumnValue(b, Head(order).column)
    ELSE ColumnValue(a, Head(order).column) < ColumnValue(b, Head(order).column)

\* The rows of the store that pass the filters, ordered by the order clause
RECURSIVE InsertOrdered(_, _, _)
InsertOrdered(sorted, row, order) ==
    IF sorted = <<>>
    THEN <<row>>
    ELSE IF ComesBefore(row, Head(sorted), order)
    THEN <<row>> \o sorted
    ELSE <<Head(sorted)>> \o InsertOrdered(Tail(sorted), row, order)

RECURSIVE OrderedRows(_, _, _)
OrderedRows(store, alertParams, sorted) ==
    IF store = <<>>
    THEN sorted
    ELSE OrderedRows(Tail(store), alertParams,
                     IF WhereConditions(Head(store), alertParams)
                     THEN InsertOrdered(sorted, Head(store), OrderClause(alertParams))
                     ELSE sorted)

\* paginationParams: skip and take are set only for a truthy offset / limit
Page(rows, alertParams) ==
    LET skip == IF alertParams.offset = None THEN 0 ELSE alertParams.offset[1]
        rest == SubSeq(rows, skip + 1, Len(rows))
    IN  IF alertParams.limit = None \/ alertParams.limit = Some(0)
        THEN rest
        ELSE SubSeq(rest, 1, Min(alertParams.limit[1], Len(rest)))

\* findAndCount: the page and the number of matching rows
GetAlerts(store, alertParams) ==
    LET rows == OrderedRows(store, alertParams, <<>>)
    IN  [page |-> Page(rows, alertParams), count |-> Len(rows)]

\* The stores listed: up to MaxRows alerts, each of its own endpoint, of a
\* low-, medium- or high-risk type and in any status.
MaxRows == 3

QueryTypes == {NEW_ENDPOINT, BASIC_AUTHENTICATION_DETECTED, UNSECURED_ENDPOINT_DETECTED}
QueryEndpointUuid(i) == "e" \o ToString(i)
QueryRow(i, type, status) == [Persisted(Draft(type, QueryEndpointUuid(i), "A new alert.", None), i) EXCEPT !.status = status]
QueryStores == UNION {{[i \in 1..k |-> QueryRow(i, f[i][1], f[i][2])] : f \in [1..k -> QueryTypes \X Status]} : k \in 0..MaxRows}
QueryParams == {[NoParams EXCEPT !.order = o] : o \in {None, Some("ASC"), Some("DESC")}} \cup {[NoParams EXCEPT !.order = o, !.status = Some({OPEN, RESOLVED}), !.hosts = Some({"api.test"})] : o \in {None, Some("ASC")}} \cup {[NoParams EXCEPT !.offset = Some(1), !.limit = Some(1), !.riskScores = Some({1, 3})], [NoParams EXCEPT !.apiEndpointUuid = Some("e1"), !.alertTypes = Some({NEW_ENDPOINT}), !.offset = Some(0), !.limit = Some(0)]}

InitQuery ==
    /\ alerts \in QueryStores
    /\ specContext = <<>>
    /\ input = None
    /\ last = NoCall

GetAlertsCall(alertParams) ==
    /\ last = NoCall
    /\ input' = Some(alertParams)
    /\ last' = [NoCall EXCEPT !.op = "getAlerts", !.returned = GetAlerts(alerts, alertParams).page, !.count = GetAlerts(alerts, alertParams).count]
    /\ UNCHANGED <<alerts, specContext>>

NextQuery == \E alertParams \in QueryParams : GetAlertsCall(alertParams)

SpecQuery == InitQuery /\ [][NextQuery]_vars

-----------------------------------------------------------------------------
(* Properties                                                              *)

Unresolved == {OPEN, IGNORED}
IsIngestion(call) == call.op \in {"createAlert", "createMissingHSTSAlert", "createSpecDiffAlerts", "createDataFieldAlerts"}
WithKey(seq, k) == {i \in DOMAIN seq : KeyOf(seq[i]) = k}

\* C1: in every reachable state of the store, no two alerts of the same
\* apiEndpointUuid whose status is not RESOLVED share (type, description).
C1_DedupInvariant ==
    \A i, j \in DOMAIN alerts :
        (i # j /\ alerts[i].status # RESOLVED /\ alerts[j].status # RESOLVED /\ alerts[i].apiEndpointUuid = alerts[j].apiEndpointUuid)
            => ~(alerts[i].type = alerts[j].type /\ alerts[i].description = alerts[j].description)

\* C2: in every ingestion step, a finding whose key has a persisted OPEN or
\* IGNORED alert yields no draft and adds no alert for that key, and a finding
\* whose key has no persisted alert at all yields a draft that is saved OPEN.
C2_LaterFindingsSuppressed ==
    [][IsIngestion(last') =>
        \A n \in DOMAIN last'.findings :
            /\ (\E i \in WithKey(alerts, last'.findings[n]) : alerts[i].status \in Unresolved)
                   => /\ WithKey(last'.returned, last'.findings[n]) = {}
                      /\ WithKey(alerts', last'.findings[n]) = WithKey(alerts, last'.findings[n])
            /\ WithKey(alerts, last'.findings[n]) = {}
                   => /\ WithKey(last'.returned, last'.findings[n]) # {}
                      /\ \E i \in WithKey(alerts', last'.findings[n]) : alerts'[i].status = OPEN]_vars

\* An ingestion call has just suppressed both of its findings, one against
\* an OPEN alert and one against an IGNORED alert.
C2_Witness ==
    /\ IsIngestion(last)
    /\ Len(last.findings) = 2
    /\ last.returned = <<>>
    /\ Len(alerts) = 2
    /\ {KeyOf(alerts[1]), KeyOf(alerts[2])} = {last.findings[1], last.findings[2]}
    /\ {alerts[1].status, alerts[2].status} = {OPEN, IGNORED}

\* C3: in every ingestion step, a finding whose key has persisted alerts that
\* are all RESOLVED is not suppressed: the call returns a draft for the key
\* and a new OPEN alert for it is saved.
C3_ReAlertAfterResolve ==
    [][IsIngestion(last') =>
        \A n \in DOMAIN last'.findings :
            (/\ WithKey(alerts, last'.findings[n]) # {}
             /\ \A i \in WithKey(alerts, last'.findings[n]) : alerts[i].status = RESOLVED)
                => /\ WithKey(last'.returned, last'.findings[n]) # {}
                   /\ \E i \in WithKey(alerts', last'.findings[n]) : i \notin DOMAIN alerts /\ alerts'[i].status = OPEN]_vars

\* The first alert of a key is RESOLVED and the identical finding has just
\* raised a second, OPEN one.
C3_Witness ==
    /\ IsIngestion(last)
    /\ Len(alerts) = 2
    /\ KeyOf(alerts[1]) = KeyOf(alerts[2])
    /\ alerts[1].status = RESOLVED
    /\ alerts[2].status = OPEN
    /\ WithKey(last.returned, KeyOf(alerts[1])) # {}

\* C4: in every reachable state, an alert's resolutionMessage is non-null
\* only if its status is RESOLVED.
C4_MessageOnlyWhenResolved ==
    \A i \in DOMAIN alerts : alerts[i].resolutionMessage # None => alerts[i].status = RESOLVED

IsUpdate(call, updateType) == call.op = "updateAlert" /\ call.updateType = updateType
OthersUnchanged(id) == DOMAIN alerts' = DOMAIN alerts /\ \A j \in DOMAIN alerts : j # id => alerts'[j] = alerts[j]

\* C5: IGNORE on an OPEN alert, UNIGNORE on an IGNORED alert and UNRESOLVE on
\* a RESOLVED alert raise no error and persist IGNORED, OPEN and OPEN.
C5_ValidTransitions ==
    [][\A id \in DOMAIN alerts :
        /\ (IsUpdate(last', IGNORE) /\ last'.alertId = id /\ alerts[id].status = OPEN)
               => (last'.err = "none" /\ alerts'[id].status = IGNORED /\ OthersUnchanged(id))
        /\ (IsUpdate(last', UNIGNORE) /\ last'.alertId = id /\ alerts[id].status = IGNORED)
               => (last'.err = "none" /\ alerts'[id].status = OPEN /\ OthersUnchanged(id))
        /\ (IsUpdate(last', UNRESOLVE) /\ last'.alertId = id /\ alerts[id].status = RESOLVED)
               => (last'.err = "none" /\ alerts'[id].status = OPEN /\ OthersUnchanged(id))]_vars

\* An UNIGNORE has just succeeded on the first alert while the second one,
\* resolved earlier, is OPEN again after an UNRESOLVE.
C5_Witness ==
    /\ IsUpdate(last, UNIGNORE)
    /\ last.err = "none"
    /\ last.alertId = 1
    /\ alerts[1].status = OPEN
    /\ Len(alerts) = 2
    /\ alerts[2].status = OPEN
    /\ alerts[2].resolutionMessage # None

\* The resolution message RESOLVE must store for each message it is given.
ExpectedMessage(resolutionMessage) ==
    CASE resolutionMessage = Some(<<"o", "k">>) -> Some(<<"o", "k">>)
      [] resolutionMessage = Some(<<" ", "o", "k", " ">>) -> Some(<<"o", "k">>)
      [] OTHER -> None

\* C6 as stated: RESOLVE on an OPEN or IGNORED alert moves it to RESOLVED and
\* stores the trimmed message, or null for an absent or blank one.
C6_ResolveFromOpenOrIgnored ==
    [][\A id \in DOMAIN alerts :
        (IsUpdate(last', RESOLVE) /\ last'.alertId = id /\ alerts[id].status \in {OPEN, IGNORED})
            => /\ last'.err = "none"
               /\ alerts'[id].status = RESOLVED
               /\ alerts'[id].resolutionMessage = ExpectedMessage(last'.resolutionMessage)]_vars

\* C6 amended: RESOLVE on an OPEN alert moves it to RESOLVED and stores the
\* trimmed message, or null for an absent or blank one; RESOLVE on an IGNORED
\* alert raises a conflict and changes nothing.
C6_ResolveFromOpen ==
    [][\A id \in DOMAIN alerts :
        /\ (IsUpdate(last', RESOLVE) /\ last'.alertId = id /\ alerts[id].status = OPEN)
               => /\ last'.err = "none"
                  /\ alerts'[id] = [alerts[id] EXCEPT !.status = RESOLVED, !.resolutionMessage = ExpectedMessage(last'.resolutionMessage)]
                  /\ OthersUnchanged(id)
        /\ (IsUpdate(last', RESOLVE) /\ last'.alertId = id /\ alerts[id].status = IGNORED)
               => (last'.err = "Error409Conflict" /\ alerts' = alerts)]_vars

\* A RESOLVE with a padded message has just succeeded and the stored message
\* is the trimmed one.
C6_Witness ==
    /\ IsUpdate(last, RESOLVE)
    /\ last.err = "none"
    /\ last.resolutionMessage = Some(<<" ", "o", "k", " ">>)
    /\ alerts[last.alertId].status = RESOLVED
    /\ alerts[last.alertId].resolutionMessage = Some(<<"o", "k">>)

\* The conflict message of every invalid (status, command) pair.
ConflictMessage(status, updateType) ==
    CASE updateType = IGNORE /\ status = IGNORED -> "Alert is already being ignored."
      [] updateType = IGNORE /\ status = RESOLVED -> "Alert is resolved and cannot be ignored."
      [] updateType = UNIGNORE /\ status # IGNORED -> "Alert is currently not ignored."
      [] updateType = RESOLVE /\ status = RESOLVED -> "Alert is already resolved."
      [] updateType = RESOLVE /\ status = IGNORED -> "Alert is ignored and cannot be resolved."
      [] updateType = UNRESOLVE /\ status # RESOLVED -> "Alert is currently not resolved."
      [] OTHER -> ""

\* C7: every invalid (status, command) pair raises a conflict with its own
\* message and leaves the store unchanged.
C7_InvalidTransitionsConflict ==
    [][\A id \in DOMAIN alerts :
        (last'.op = "updateAlert" /\ last'.alertId = id /\ ConflictMessage(alerts[id].status, last'.updateType) # "")
            => /\ last'.err = "Error409Conflict"
               /\ last'.msg = ConflictMessage(alerts[id].status, last'.updateType)
               /\ alerts' = alerts]_vars

\* An IGNORE has just been refused on a RESOLVED alert.
C7_Witness ==
    /\ IsUpdate(last, IGNORE)
    /\ last.err = "Error409Conflict"
    /\ last.msg = "Alert is resolved and cannot be ignored."
    /\ alerts[last.alertId].status = RESOLVED

\* C8: an update type that is none of the four commands raises an internal
\* error, not a conflict, from every status, and the store is unchanged.
C8_UnknownUpdateType ==
    [][(last'.op = "updateAlert" /\ last'.updateType \notin {IGNORE, UNIGNORE, RESOLVE, UNRESOLVE})
        => /\ last'.err = "Error500InternalServer"
           /\ last'.msg = "Unknown update type."
           /\ alerts' = alerts]_vars

\* An unknown command has just been refused on a RESOLVED alert whose
\* neighbour is IGNORED.
C8_Witness ==
    /\ last.op = "updateAlert"
    /\ last.updateType = "DELETE"
    /\ last.err = "Error500InternalServer"
    /\ alerts[last.alertId].status = RESOLVED
    /\ \E i \in DOMAIN alerts : alerts[i].status = IGNORED


\* The arguments of the createDataFieldAlerts call under study.
Arg == input[1]
Applied == last.op = "createDataFieldAlerts"
Created == SubSeq(last.returned, Len(last.supplied) + 1, Len(last.returned))
BasicAuthAlerts(seq) == {i \in DOMAIN seq : seq[i].type = BASIC_AUTHENTICATION_DETECTED /\ seq[i].apiEndpointUuid = Arg.apiEndpoint.uuid}

\* The headers of the explored traces that name "authorization" and carry
\* "basic " in their value, whatever the case.
MatchingHeaders == {BasicHeader, BasicHeaderUpper}
HasMatchingHeader == Arg.apiTrace # None /\ Arg.apiTrace[1].requestHeaders # None /\ \E i \in DOMAIN Arg.apiTrace[1].requestHeaders[1] : Arg.apiTrace[1].requestHeaders[1][i] \in MatchingHeaders
NoBasicAuthDuplicate ==
    /\ \A i \in DOMAIN last.supplied : ~(last.supplied[i].apiEndpointUuid = Arg.apiEndpoint.uuid /\ last.supplied[i].description = basicAuthDescription)
    /\ \A i \in DOMAIN alerts : ~(alerts[i].apiEndpointUuid = Arg.apiEndpoint.uuid /\ alerts[i].type = BASIC_AUTHENTICATION_DETECTED /\ alerts[i].description = basicAuthDescription /\ alerts[i].status # RESOLVED)
HasHeaderField == \E i \in DOMAIN Arg.dataFields[1] : Arg.dataFields[1][i].dataSection = REQUEST_HEADER

\* C9 as stated: with a matching header in the trace and no in-batch or
\* persisted unresolved duplicate, the call creates exactly one
\* BASIC_AUTHENTICATION_DETECTED alert for any (non-empty) data-field list.
C9_OneBasicAuthAlertAnyFields ==
    (Applied /\ Arg.dataFields # None /\ Arg.dataFields # Some(<<>>) /\ HasMatchingHeader /\ NoBasicAuthDuplicate)
        => Cardinality(BasicAuthAlerts(Created)) = 1

\* C9 amended: with a matching header in the trace and no in-batch or
\* persisted unresolved duplicate, the call creates exactly one
\* BASIC_AUTHENTICATION_DETECTED alert when the data-field list holds a field
\* of the REQUEST_HEADER section, however many such fields and matching
\* headers there are, and none when it holds no such field.
C9_OneBasicAuthAlert ==
    (Applied /\ Arg.dataFields # None /\ HasMatchingHeader /\ NoBasicAuthDuplicate)
        => /\ Cardinality(BasicAuthAlerts(Created)) = (IF HasHeaderField THEN 1 ELSE 0)
           /\ \A i \in BasicAuthAlerts(Created) : Created[i].description = basicAuthDescription

\* Two REQUEST_HEADER fields and a trace with two matching headers have just
\* yielded one basic-authentication alert.
C9_Witness ==
    /\ Applied
    /\ Arg.dataFields = Some(<<HeaderField, HeaderEmailField>>)
    /\ Arg.apiTrace # None
    /\ Arg.apiTrace[1].requestHeaders = Some(<<BasicHeaderUpper, BasicHeader>>)
    /\ NoBasicAuthDuplicate
    /\ Cardinality(BasicAuthAlerts(Created)) = 1

\* The path tokens of the explored endpoints.
ExpectedTokens(apiEndpoint) ==
    CASE apiEndpoint = Endpoint1 -> <<"users", "{id}", "profile">>
      [] apiEndpoint = Endpoint2 -> <<"login">>
      [] apiEndpoint = Endpoint3 -> <<"{id}", "x", "{id}">>

Matches(dataField) == {i \in DOMAIN ExpectedTokens(Arg.apiEndpoint) : ExpectedTokens(Arg.apiEndpoint)[i] = "{" \o dataField.dataPath \o "}"}
LastMatch(dataField) == CHOOSE i \in Matches(dataField) : \A j \in Matches(dataField) : j <= i
PathAlerts(description) == {i \in DOMAIN Created : Created[i].type = PATH_SENSITIVE_DATA /\ Created[i].description = description}
PersistedPathDuplicate(description) == \E i \in DOMAIN alerts : alerts[i].apiEndpointUuid = Arg.apiEndpoint.uuid /\ alerts[i].type = PATH_SENSITIVE_DATA /\ alerts[i].description = description /\ alerts[i].status # RESOLVED
PathAlertIs(description, pathTokenIdx) ==
    /\ \A i \in PathAlerts(description) : Created[i].context.pathTokenIdx = pathTokenIdx
    /\ Cardinality(PathAlerts(description)) = (IF PersistedPathDuplicate(description) THEN 0 ELSE 1)

\* C10: for every REQUEST_PATH field and data class of the call, the
\* PATH_SENSITIVE_DATA alert cites the 1-based position of the (last) path
\* token equal to "{dataPath}" and carries its 0-based index as pathTokenIdx;
\* if no token matches, the description is the generic one and pathTokenIdx
\* is null.  The alert is created unless a persisted unresolved one exists.
C10_PathFieldAlert ==
    (Applied /\ Arg.dataFields # None)
        => \A n \in DOMAIN Arg.dataFields[1] :
               Arg.dataFields[1][n].dataSection = REQUEST_PATH
                   => \A c \in DOMAIN Arg.dataFields[1][n].dataClasses[1] :
                          IF Matches(Arg.dataFields[1][n]) # {}
                          THEN PathAlertIs("Path Parameter at position " \o ToString(LastMatch(Arg.dataFields[1][n])) \o " contains sensitive data of type " \o Arg.dataFields[1][n].dataClasses[1][c] \o ".", Some(LastMatch(Arg.dataFields[1][n]) - 1))
                          ELSE PathAlertIs("Path Parameters contain sensitive data of type " \o Arg.dataFields[1][n].dataClasses[1][c] \o ".", None)

\* Path /users/{id}/profile with dataPath "id" has just yielded an alert that
\* cites position 2 with pathTokenIdx 1, and the unmatched dataPath "name" the
\* generic alert.
C10_Witness ==
    /\ Applied
    /\ Arg.apiEndpoint = Endpoint1
    /\ Arg.dataFields = Some(<<PathIdField, PathNameField>>)
    /\ \E i \in DOMAIN Created :
           /\ Created[i].type = PATH_SENSITIVE_DATA
           /\ Created[i].description = "Path Parameter at position 2 contains sensitive data of type Email."
           /\ Created[i].context.pathTokenIdx = Some(1)
    /\ \E i \in DOMAIN Created :
           /\ Created[i].type = PATH_SENSITIVE_DATA
           /\ Created[i].description = "Path Parameters contain sensitive data of type Phone."
           /\ Created[i].context.pathTokenIdx = None

-----------------------------------------------------------------------------
(* getAlerts                                                               *)

Listed == last.op = "getAlerts"
RequestedDirection == IF input[1].order = None THEN "DESC" ELSE input[1].order[1]
EqualRiskScores(store) == \A i, j \in DOMAIN store : store[i].riskScore = store[j].riskScore
StatusThenCreatedDesc(a, b) ==
    \/ StatusRank(a.status) > StatusRank(b.status)
    \/ StatusRank(a.status) = StatusRank(b.status) /\ createdAt(a) > createdAt(b)

\* C11: the listing is ordered by risk score first, in the requested
\* direction (descending when none is requested), then by status descending,
\* then by creation time descending: of two listed alerts with different risk
\* scores the one the direction prefers comes first whatever their statuses.
C11_RiskScorePrimary ==
    Listed =>
        \A i, j \in DOMAIN last.returned :
            i < j =>
                IF last.returned[i].riskScore # last.returned[j].riskScore
                THEN IF RequestedDirection = "DESC"
                     THEN last.returned[i].riskScore > last.returned[j].riskScore
                     ELSE last.returned[i].riskScore < last.returned[j].riskScore
                ELSE StatusThenCreatedDesc(last.returned[i], last.returned[j])

\* C12: when the alerts all have the same risk score, the listing is in
\* status-descending then createdAt-descending order, it is the listing every
\* other requested direction gives, and without filter or page it holds every
\* alert of the store.
C12_EqualRiskOrder ==
    (Listed /\ EqualRiskScores(alerts)) =>
        /\ \A i, j \in DOMAIN last.returned : i < j => StatusThenCreatedDesc(last.returned[i], last.returned[j])
        /\ \A o \in {None, Some("ASC"), Some("DESC")} : GetAlerts(alerts, [input[1] EXCEPT !.order = o]).page = last.returned
        /\ [input[1] EXCEPT !.order = None] = NoParams => {last.returned[i] : i \in DOMAIN last.returned} = {alerts[i] : i \in DOMAIN alerts}

\* Three alerts of one risk score, OPEN, RESOLVED and OPEN in creation order,
\* have just been listed in ascending risk-score order: the RESOLVED one comes
\* first, then the newer OPEN one, then the older.
C12_Witness ==
    /\ Listed
    /\ input[1] = [NoParams EXCEPT !.order = Some("ASC")]
    /\ Len(alerts) = 3
    /\ EqualRiskScores(alerts)
    /\ <<alerts[1].status, alerts[2].status, alerts[3].status>> = <<OPEN, RESOLVED, OPEN>>
    /\ <<last.returned[1].uuid, last.returned[2].uuid, last.returned[3].uuid>> = <<2, 3, 1>>

-----------------------------------------------------------------------------
(* Degraded result of the batch factories                                  *)

Factories == {"createMissingHSTSAlert", "createSpecDiffAlerts", "createDataFieldAlerts"}

\* The repository operations a call is bound to make whatever the store
\* holds: one lookup per triple of alertProps; one lookup and one write per
\* key of alertItems (JSON document, where no lookup of a line throws).
SureOperations ==
    CASE input[1].op = "createMissingHSTSAlert" /\ input[1].alertProps # None -> Len(input[1].alertProps[1])
      [] input[1].op = "createSpecDiffAlerts" /\ input[1].alertItems # None /\ input[1].extension = JSON -> 2 * Len(input[1].alertItems[1])
      [] OTHER -> 0

\* C13: when a step of createDataFieldAlerts, createSpecDiffAlerts or
\* createMissingHSTSAlert fails, the call returns the empty list and raises
\* nothing to its caller, whatever drafts it had collected; and a repository
\* operation that rejects is such a failure.
C13_DegradedResult ==
    (last.op \in Factories) =>
        /\ last.threw => (last.returned = <<>> /\ last.err = "none")
        /\ input[1].fault \in 1..SureOperations => (last.threw /\ last.returned = <<>> /\ last.err = "none")

\* A createSpecDiffAlerts call had collected the draft of its first key when
\* the cache store write of that iteration rejected: it returned the empty
\* list and raised nothing.
C13_Witness ==
    /\ last.op = "createSpecDiffAlerts"
    /\ input[1].fault = 2
    /\ input[1].extension = JSON
    /\ last.threw
    /\ Len(last.pushed) = 1
    /\ last.returned = <<>>
    /\ last.err = "none"

-----------------------------------------------------------------------------
(* The spec-location cache                                                 *)

SpecDiffed(call) == call.op = "createSpecDiffAlerts"
MinimizedSpecKeyOf(pathPointer) ==
    CASE pathPointer = PtrPaths -> <<"p", "a", "t", "h", "s">>
      [] pathPointer = PtrLogin -> <<"p", "a", "t", "h", "s", ".", "/", "l", "o", "g", "i", "n">>
      [] pathPointer = PtrMissing -> <<"p", "a", "t", "h", "s", ".", "x">>

\* C14: a createSpecDiffAlerts call does not run the location lookup for a
\* pointer-path whose joined key is in the spec's minimizedSpecContext, and
\* across the calls on one spec an entry of the stored cache is never
\* overwritten or removed.
C14_CacheWriteOnce ==
    [][SpecDiffed(last') =>
        /\ \A k \in DOMAIN specContext : k \in DOMAIN specContext' /\ specContext'[k] = specContext[k]
        /\ \A n \in DOMAIN last'.parsed : last'.parsed[n] \notin DOMAIN specContext
        /\ \A m, n \in DOMAIN last'.parsed : (m # n /\ last'.parsed[m] = last'.parsed[n]) => last'.parsed[m] \notin DOMAIN specContext']_vars

\* The pointer-path paths./login was cached by an earlier call; a call has
\* just raised an alert for a key with that pointer-path without parsing the
\* document, and the entry is as it was.
C14_Witness ==
    /\ SpecDiffed(last)
    /\ input[1].alertItems = Some(<<<<DiffKey4, PtrLogin>>>>)
    /\ input[1].extension = JSON
    /\ Len(alerts) = 2
    /\ alerts[1].description = DiffKey
    /\ Len(last.returned) = 1
    /\ last.parsed = <<>>
    /\ MinimizedSpecKeyOf(PtrLogin) \in DOMAIN specContext
    /\ specContext[MinimizedSpecKeyOf(PtrLogin)].lineNumber = 3

-----------------------------------------------------------------------------
(* In-batch suppression                                                    *)

NoTwoAlike(batch) ==
    \A i, j \in DOMAIN batch :
        (batch[i].apiEndpointUuid = batch[j].apiEndpointUuid /\ batch[i].description = batch[j].description) => i = j

\* C15: the batch a createMissingHSTSAlert or createSpecDiffAlerts call
\* returns never holds two drafts with the same apiEndpointUuid and
\* description: a finding equal to a draft appended earlier in the call is
\* suppressed also when the store holds no unresolved duplicate.
C15_BatchConstructorsSuppress ==
    last.op \in {"createMissingHSTSAlert", "createSpecDiffAlerts"} => NoTwoAlike(last.returned)

\* Does the n-th finding a createDataFieldAlerts call examined yield a draft:
\* it is the first of its description in the call, the supplied batch holds
\* no draft of the endpoint with that description and the store no
\* unresolved alert of its key.
Yields(n) ==
    /\ \A m \in 1..(n - 1) : last.findings[m].description # last.findings[n].description
    /\ \A i \in DOMAIN last.supplied : ~(last.supplied[i].apiEndpointUuid = last.findings[n].apiEndpointUuid /\ last.supplied[i].description = last.findings[n].description)
    /\ \A i \in DOMAIN alerts : ~(KeyOf(alerts[i]) = last.findings[n] /\ alerts[i].status # RESOLVED)
Yielding == {n \in DOMAIN last.findings : Yields(n)}

\* C16: given a supplied batch without duplicates, the batch
\* createDataFieldAlerts returns holds no two drafts with the same
\* apiEndpointUuid and description, and its new drafts are, in processing
\* order, those of the findings that are the first of their description in the
\* call and have no duplicate in the supplied batch or unresolved in the store.
C16_InBatchSuppressionInOrder ==
    (Applied /\ Arg.dataFields # None /\ NoTwoAlike(last.supplied)) =>
        /\ NoTwoAlike(last.returned)
        /\ Len(Created) = Cardinality(Yielding)
        /\ \A n \in Yielding : KeyOf(Created[Cardinality({m \in Yielding : m <= n})]) = last.findings[n]

\* On path /login the REQUEST_PATH fields "id" and "name" both yield the
\* finding "Path Parameters contain sensitive data of type Email.": six
\* findings were examined, the fourth repeats the second, five drafts came out.
C16_Witness ==
    /\ Applied
    /\ Arg.apiEndpoint = Endpoint2
    /\ Arg.dataFields = Some(<<PathIdField, PathNameField>>)
    /\ alerts = <<>>
    /\ last.supplied = <<>>
    /\ Len(last.findings) = 6
    /\ last.findings[4] = last.findings[2]
    /\ last.findings[2].description = "Path Parameters contain sensitive data of type Email."
    /\ Len(last.returned) = 5

-----------------------------------------------------------------------------
(* Lookup miss                                                             *)

\* The pointer-paths that stand for no key of the explored documents.
ResolvesToNoLine(pathPointer) == pathPointer = PtrMissing
Suppressed(store, key) == \E i \in DOMAIN store : store[i].apiEndpointUuid = "e1" /\ store[i].type = OPEN_API_SPEC_DIFF /\ store[i].description = key /\ store[i].status # RESOLVED

\* C17: when a createSpecDiffAlerts call processes a diff key that is not
\* suppressed and whose pointer-path resolves to no line of the spec, no entry
\* for that pointer key is added to minimizedSpecContext and the draft for
\* the key is in the returned batch.
C17_LookupMissStillAlerts ==
    [][(SpecDiffed(last') /\ input'[1].alertItems # None) =>
        \A n \in DOMAIN input'[1].alertItems[1] :
            (/\ ~Suppressed(alerts, input'[1].alertItems[1][n][1])
             /\ ResolvesToNoLine(input'[1].alertItems[1][n][2]))
                => /\ MinimizedSpecKeyOf(input'[1].alertItems[1][n][2]) \notin DOMAIN specContext'
                   /\ \E i \in DOMAIN last'.returned : last'.returned[i].description = input'[1].alertItems[1][n][1]]_vars

-----------------------------------------------------------------------------
(* Concurrent callers                                                      *)

\* The finding a caller's call carries.
FindingOf(call) ==
    CASE call.op = "createAlert" /\ call.arg = "e1" -> Key("e1", NEW_ENDPOINT, "A new endpoint has been detected: /users/{id}/profile.")
      [] call.op = "createAlert" /\ call.arg = "e2" -> Key("e2", NEW_ENDPOINT, "A new endpoint has been detected: /login.")
      [] call.op = "createDataFieldAlerts" -> Key(call.arg, BASIC_AUTHENTICATION_DETECTED, "Basic Authentication detected in Authorization header.")
      [] call.op = "createSpecDiffAlerts" -> Key("e1", OPEN_API_SPEC_DIFF, call.arg)
UnresolvedWithKey(store, k) == {i \in DOMAIN store : KeyOf(store[i]) = k /\ store[i].status # RESOLVED}
Checked(call) == call.pc \in {"returned", "done"}

\* C18: a call that finds no unresolved alert of its finding's key in the
\* store returns a draft for it and a call that finds one returns none; so
\* when two calls carrying the same finding have both checked the store
\* before either's draft was saved, both drafts are saved and the store holds
\* two unresolved alerts of one key.
C18_IngestionRace ==
    /\ \A p \in Callers :
           Checked(input[p]) =>
               Len(input[p].drafts) = (IF UnresolvedWithKey(input[p].storeThen, FindingOf(input[p])) = {} THEN 1 ELSE 0)
    /\ \A p, q \in Callers :
           (/\ p # q
            /\ input[p].pc = "done"
            /\ input[q].pc = "done"
            /\ FindingOf(input[p]) = FindingOf(input[q])
            /\ UnresolvedWithKey(input[p].storeThen, FindingOf(input[p])) = {}
            /\ UnresolvedWithKey(input[q].storeThen, FindingOf(input[q])) = {})
               => Cardinality(UnresolvedWithKey(alerts, FindingOf(input[p]))) >= 2

\* Two callers ran createAlert for the same new endpoint, each on the empty
\* store; both drafts have been saved and the store holds two OPEN alerts of
\* one key.
C18_Witness ==
    /\ \A p \in {1, 2} : input[p].pc = "done" /\ input[p].op = "createAlert" /\ input[p].arg = "e1" /\ input[p].storeThen = <<>>
    /\ Len(alerts) >= 2
    /\ KeyOf(alerts[1]) = KeyOf(alerts[2])
    /\ alerts[1].status = OPEN
    /\ alerts[2].status = OPEN

PointerKeyOf(call) == IF call.arg = DiffKey THEN MinimizedSpecKeyOf(PtrLogin) ELSE MinimizedSpecKeyOf(PtrPaths)
Wrote(call) == call.op = "createSpecDiffAlerts" /\ Checked(call)
LastWriter(p) == Wrote(input[p]) /\ \A q \in Callers : Wrote(input[q]) => p \notin input[q].writtenBefore

\* C19: the stored minimizedSpecContext is the copy the last writer had
\* loaded plus the entry that call computed (none when its finding was
\* suppressed); so when two calls that resolve different pointer keys have
\* both loaded the spec before either wrote, the entry of the first writer is
\* missing from the store after the second write.
C19_CacheLostUpdate ==
    \A p \in Callers :
        LastWriter(p) =>
            /\ DOMAIN specContext = DOMAIN input[p].loaded \cup (IF UnresolvedWithKey(input[p].storeThen, FindingOf(input[p])) = {} THEN {PointerKeyOf(input[p])} ELSE {})
            /\ \A q \in input[p].writtenBefore :
                   (PointerKeyOf(input[q]) # PointerKeyOf(input[p]) /\ PointerKeyOf(input[q]) \notin DOMAIN input[p].loaded)
                       => PointerKeyOf(input[q]) \notin DOMAIN specContext

\* Both callers loaded the spec with an empty cache; caller 1 wrote the entry
\* of paths./login, then caller 2 wrote that of paths: the store holds only
\* the entry of paths.
C19_Witness ==
    /\ Wrote(input[1])
    /\ Wrote(input[2])
    /\ input[1].loaded = <<>>
    /\ input[2].loaded = <<>>
    /\ input[1].arg = DiffKey
    /\ input[2].arg = DiffKey2
    /\ input[2].writtenBefore = {1}
    /\ DOMAIN input[1].wrote = {MinimizedSpecKeyOf(PtrLogin)}
    /\ DOMAIN specContext = {MinimizedSpecKeyOf(PtrPaths)}

-----------------------------------------------------------------------------
(* Lifecycle commands and the deduplication invariant                      *)

NoUnresolvedTwins(store) ==
    \A i, j \in DOMAIN store :
        (i # j /\ store[i].status # RESOLVED /\ store[j].status # RESOLVED) => KeyOf(store[i]) # KeyOf(store[j])

\* C20: if no two unresolved alerts share (apiEndpointUuid, type,
\* description) before an updateAlert command, none do after it; UNRESOLVE of
\* a RESOLVED alert whose key has been raised again does not leave two
\* unresolved alerts of that key.
C20_UpdatePreservesDedup ==
    [][(last'.op = "updateAlert" /\ NoUnresolvedTwins(alerts)) => NoUnresolvedTwins(alerts')]_vars

\* The status changes the switch of updateAlert makes
AllowedTransitions ==
    {<<OPEN, IGNORED>>, <<IGNORED, OPEN>>, <<OPEN, RESOLVED>>, <<RESOLVED, OPEN>>}

PersistedTransitionsAllowed ==
    \A alertId \in DOMAIN alerts :
        alerts'[alertId].status # alerts[alertId].status
            => <<alerts[alertId].status, alerts'[alertId].status>> \in AllowedTransitions

\* C21: under concurrent updateAlert calls on one alert id, every change of
\* the persisted status is a transition the code allows from the status
\* persisted immediately before the write: OPEN to IGNORED or RESOLVED,
\* IGNORED to OPEN, RESOLVED to OPEN; never IGNORED to RESOLVED or RESOLVED
\* to IGNORED.
C21_PersistedTransitionsAllowed == [][PersistedTransitionsAllowed]_vars

\* The sensitiveDataAlerts argument of the call, [] when it is not passed
SuppliedDrafts(args) ==
    IF args.sensitiveDataAlerts = None THEN <<>> ELSE args.sensitiveDataAlerts[1]

\* returned is supplied followed by drafts of the findings examined
AppendOnly(supplied, returned, findings) ==
    /\ Len(returned) >= Len(supplied)
    /\ SubSeq(returned, 1, Len(supplied)) = supplied
    /\ \A i \in (Len(supplied) + 1)..Len(returned) :
           \E j \in DOMAIN findings : KeyOf(returned[i]) = findings[j]

\* C22: createDataFieldAlerts is append-only over the supplied
\* sensitiveDataAlerts batch: on a successful call the returned list starts
\* with the supplied drafts, unchanged and in their original order, followed
\* only by drafts created in this call.
C22_AppendOnlyOverSupplied ==
    Applied => AppendOnly(SuppliedDrafts(Arg), last.returned, last.findings)

=============================================================================
